---- MODULE Spec2Model ----
(***************************************************************************)
(* IlmThread: class Mutex and class Lock (IlmThreadMutex.h).               *)
(*                                                                         *)
(* Mutex is std::mutex (or the CXX03 wrapper with private lock/unlock).    *)
(* Lock is the scoped guard: the constructor optionally locks the mutex,   *)
(* acquire()/release() lock and unlock it, the destructor unlocks it if    *)
(* the guard's _locked flag is set.                                        *)
(*                                                                         *)
(* A Lock object belongs to one thread (header comment, lines 50-51), so   *)
(* the statements of one member function that touch only the guard's own   *)
(* fields are taken together with the mutex operation of that function.    *)
(* The one place where a member function is split is the blocking call     *)
(* _mutex.lock(): the call is one step (the thread is then blocked inside  *)
(* the function) and its return, together with "_locked = true", another.  *)
(***************************************************************************)
EXTENDS Integers, Sequences, FiniteSets, TLC

\* ---------------------------------------------------------------- bounds
NumThreads == 2
NumMutexes == 2
MaxGuards  == 2
Iterations == 2

Threads  == 1..NumThreads
Mutexes  == 1..NumMutexes
Slots    == 1..MaxGuards
GuardIds == Threads \X Slots

\* ------------------------------------------------------- distinguished values
NoOwner == 0
NoMutex == 0
NoGuard == <<0, 0>>

ThreadOf(g) == g[1]

\* The storage of a guard slot that holds no Lock object.
NoObject == [alive |-> FALSE, mutex |-> NoMutex, locked |-> FALSE]

NoCall == [op |-> "none", g |-> NoGuard]

NoOp == [op |-> "none", g |-> NoGuard, m |-> NoMutex, held |-> FALSE,
         auto |-> FALSE,
         calls |-> <<>>, ret |-> TRUE, threw |-> FALSE, how |-> "none",
         result |-> FALSE, overtook |-> FALSE]

ExitPaths == {"fallthrough", "return", "throw"}

VARIABLES
    mutex,    \* mutex[m]: the thread that has locked Mutex m, or NoOwner
    holder,   \* holder[m]: the guard whose lock() call locked m (history)
    guards,   \* guards[g]: the Lock object in slot g: alive, _mutex, _locked
    inCall,   \* inCall[t]: the blocking member function thread t is inside
    lastOp,   \* the member function executed by the last step (history)
    counter,  \* the shared integer of the increment scenario
    tmp,      \* tmp[t]: the value thread t has read from counter
    iter,     \* iter[t]: the blocks thread t has completed
    cpc,      \* cpc[t]: thread t's position in the increment block
    waitq     \* waitq[m]: the threads inside lock() on m, oldest call first
              \* (history: neither Lock nor Mutex keeps such a queue)

cvars == <<counter, tmp, iter, cpc>>
vars  == <<mutex, holder, guards, inCall, lastOp, counter, tmp, iter, cpc,
           waitq>>

Init ==
    /\ mutex   = [m \in Mutexes |-> NoOwner]
    /\ holder  = [m \in Mutexes |-> NoGuard]
    /\ guards  = [g \in GuardIds |-> NoObject]
    /\ inCall  = [t \in Threads |-> NoCall]
    /\ lastOp  = NoOp
    /\ counter = 0
    /\ tmp     = [t \in Threads |-> 0]
    /\ iter    = [t \in Threads |-> 0]
    /\ cpc     = [t \in Threads |-> "top"]
    /\ waitq   = [m \in Mutexes |-> <<>>]

\* ------------------------------------------------------------------ Mutex

\* Mutant: lock() returns although the mutex is locked.
MutexCanLockAlways(m) == TRUE

\* lock() returns only when no thread has the mutex locked.
MutexCanLock(m) == mutex[m] = NoOwner

\* Mutant: lock() returns to the threads in the order of their calls.
MutexGrantsFifo(m, t) == MutexCanLock(m) /\ Head(waitq[m]) = t

\* lock() called by thread t returns when the mutex is free, whichever other
\* threads are inside lock() on it and whenever they called.
MutexGrants(m, t) == MutexCanLock(m)

\* waitq when thread t enters lock() on m, and when it leaves it.
Enqueue(m, t) == [waitq EXCEPT ![m] = Append(waitq[m], t)]

Dequeue(m, t) == [waitq EXCEPT ![m] = SelectSeq(waitq[m], LAMBDA x : x # t)]

\* Thread t entered lock() on m after a thread that is still inside it.
Overtakes(m, t) == waitq[m] # <<>> /\ Head(waitq[m]) # t

\* The owner after unlock() by thread t.  unlock() by a thread that has not
\* locked the mutex is undefined: the mutex is released or left as it is.
MutexUnlockOutcomes(m, t) ==
    IF mutex[m] = t THEN {NoOwner} ELSE {NoOwner, mutex[m]}

\* ------------------------------------------------------------------- Lock

\* Guards are objects of the thread's stack: slot Top(t) is the innermost.
Top(t) ==
    IF \E s \in Slots : guards[<<t, s>>].alive
    THEN CHOOSE s \in Slots :
             /\ guards[<<t, s>>].alive
             /\ \A s2 \in Slots : guards[<<t, s2>>].alive => s2 <= s
    ELSE 0

\* Mutant: locked() returns the negation of _locked.
lockedNegated(g) == ~guards[g].locked

\* Lock::locked
locked(g) == guards[g].locked

\* Mutant: the member initialiser is _locked (true).
LockInitLocked(m) == [alive |-> TRUE, mutex |-> m, locked |-> TRUE]

\* The member initialisers of Lock::Lock: _mutex (m), _locked (false).
LockInit(m) == [alive |-> TRUE, mutex |-> m, locked |-> FALSE]

\* Mutant: the constructor ignores autoLock and never locks.
CtorLocksNever(autoLock) == FALSE

\* Mutant: the constructor ignores autoLock and always locks.
CtorLocksAlways(autoLock) == TRUE

\* Lock::Lock: "if (autoLock)".
CtorLocks(autoLock) == autoLock

\* Lock::Lock (m, autoLock), to the call of _mutex.lock() or to its end.
Lock(t, m, autoLock) ==
    LET g == <<t, Top(t) + 1>> IN
    /\ inCall[t] = NoCall
    /\ Top(t) < MaxGuards
    /\ guards' = [guards EXCEPT ![g] = LockInit(m)]
    /\ inCall' = [inCall EXCEPT ![t] =
                     IF CtorLocks(autoLock) THEN [op |-> "ctor", g |-> g]
                                            ELSE NoCall]
    /\ lastOp' = [NoOp EXCEPT !.op = "ctor", !.g = g, !.m = m,
                     !.auto = autoLock,
                     !.calls = IF CtorLocks(autoLock) THEN <<"lock">> ELSE <<>>,
                     !.ret = ~CtorLocks(autoLock)]
    /\ waitq' = IF CtorLocks(autoLock) THEN Enqueue(m, t) ELSE waitq
    /\ UNCHANGED <<mutex, holder>>

\* Mutant: the constructor locks the mutex and leaves _locked as it was.
CtorLockedUnset(g) == guards[g].locked

\* Lock::Lock: "_locked = true".
CtorLocked(g) == TRUE

\* Lock::Lock: _mutex.lock() returns, then _locked = true.
CtorReturns(t) ==
    LET g == inCall[t].g
        m == guards[g].mutex IN
    /\ inCall[t].op = "ctor"
    /\ MutexGrants(m, t)
    /\ mutex'  = [mutex EXCEPT ![m] = t]
    /\ holder' = [holder EXCEPT ![m] = g]
    /\ guards' = [guards EXCEPT ![g].locked = CtorLocked(g)]
    /\ inCall' = [inCall EXCEPT ![t] = NoCall]
    /\ lastOp' = [NoOp EXCEPT !.op = "ctor", !.g = g, !.m = m,
                     !.auto = TRUE,
                     !.calls = <<"lock">>, !.overtook = Overtakes(m, t)]
    /\ waitq' = Dequeue(m, t)

\* _mutex.lock() fails: the error leaves the member function before
\* "_locked = true".  A Lock whose constructor is left by the error was
\* never constructed, and its destructor does not run.
LockError(t) ==
    LET g == inCall[t].g
        m == guards[g].mutex IN
    /\ inCall[t] # NoCall
    /\ guards' = IF inCall[t].op = "ctor"
                 THEN [guards EXCEPT ![g] = NoObject]
                 ELSE guards
    /\ inCall' = [inCall EXCEPT ![t] = NoCall]
    /\ lastOp' = [NoOp EXCEPT !.op = inCall[t].op, !.g = g, !.m = m,
                     !.held = guards[g].locked, !.calls = <<"lock">>,
                     !.ret = FALSE, !.threw = TRUE,
                     !.auto = (inCall[t].op = "ctor")]
    /\ waitq' = Dequeue(m, t)
    /\ UNCHANGED <<mutex, holder>>

\* _mutex.lock() called by the thread that has the mutex locked is undefined:
\* the call blocks (it returns only if the mutex is freed), or it fails.
LockThrows(t) ==
    /\ inCall[t] # NoCall
    /\ mutex[guards[inCall[t].g].mutex] = t
    /\ LockError(t)

\* Mutant: unlock() releases every Mutex, not only the one it is called on.
MutexUnlockAll(m, t) ==
    /\ mutex'  = [m2 \in Mutexes |-> NoOwner]
    /\ holder' = [m2 \in Mutexes |-> NoGuard]

\* _mutex.unlock() called by thread t.
MutexUnlock(m, t) ==
    \E v \in MutexUnlockOutcomes(m, t) :
        /\ mutex'  = [mutex EXCEPT ![m] = v]
        /\ holder' = [holder EXCEPT ![m] =
                         IF v = NoOwner THEN NoGuard ELSE holder[m]]

\* Mutant: the destructor never unlocks.
DtorUnlocksNever(g) == FALSE

\* Mutant: the destructor unlocks without testing _locked.
DtorUnlocksAlways(g) == TRUE

\* Mutant: the destructor's test is negated.
DtorUnlocksNegated(g) == ~guards[g].locked

\* Lock::~Lock: "if (_locked)".
DtorUnlocks(g) == guards[g].locked

\* Lock::~Lock, run when the scope of the innermost guard of t is left.
DtorLock(t, how) ==
    LET g == <<t, Top(t)>>
        m == guards[g].mutex IN
    /\ inCall[t] = NoCall
    /\ Top(t) > 0
    /\ IF DtorUnlocks(g) THEN MutexUnlock(m, t)
                         ELSE UNCHANGED <<mutex, holder>>
    /\ guards' = [guards EXCEPT ![g] = NoObject]
    /\ lastOp' = [NoOp EXCEPT !.op = "dtor", !.g = g, !.m = m, !.how = how,
                     !.held = guards[g].locked,
                     !.calls = IF DtorUnlocks(g) THEN <<"unlock">> ELSE <<>>]
    /\ UNCHANGED <<inCall, waitq>>

\* Mutant: acquire() locks the mutex and leaves _locked as it was.
AcquireLockedUnset(g) == guards[g].locked

\* Mutant: acquire() writes "_locked = false".
AcquireLockedNever(g) == FALSE

\* Lock::acquire: "_locked = true".
AcquireLocked(g) == TRUE

\* Mutant: acquire() locks only an unheld guard.
AcquireLocksIfUnheld(g) == ~guards[g].locked

\* Lock::acquire: "_mutex.lock()", with no test of _locked.
AcquireLocks(g) == TRUE

\* Lock::acquire, to the call of _mutex.lock().
acquire(t, g) ==
    /\ ThreadOf(g) = t
    /\ guards[g].alive
    /\ inCall[t] = NoCall
    /\ inCall' = [inCall EXCEPT ![t] =
                     IF AcquireLocks(g) THEN [op |-> "acquire", g |-> g]
                                        ELSE NoCall]
    /\ guards' = IF AcquireLocks(g)
                 THEN guards
                 ELSE [guards EXCEPT ![g].locked = AcquireLocked(g)]
    /\ lastOp' = [NoOp EXCEPT !.op = "acquire", !.g = g,
                     !.ret = ~AcquireLocks(g),
                     !.m = guards[g].mutex,
                     !.held = guards[g].locked,
                     !.calls = IF AcquireLocks(g) THEN <<"lock">> ELSE <<>>]
    /\ waitq' = IF AcquireLocks(g) THEN Enqueue(guards[g].mutex, t) ELSE waitq
    /\ UNCHANGED <<mutex, holder>>

\* Lock::acquire: _mutex.lock() returns, then _locked = true.
AcquireReturns(t) ==
    LET g == inCall[t].g
        m == guards[g].mutex IN
    /\ inCall[t].op = "acquire"
    /\ MutexGrants(m, t)
    /\ mutex'  = [mutex EXCEPT ![m] = t]
    /\ holder' = [holder EXCEPT ![m] = g]
    /\ guards' = [guards EXCEPT ![g].locked = AcquireLocked(g)]
    /\ inCall' = [inCall EXCEPT ![t] = NoCall]
    /\ lastOp' = [NoOp EXCEPT !.op = "acquire", !.g = g, !.m = m,
                     !.held = guards[g].locked, !.calls = <<"lock">>,
                     !.overtook = Overtakes(m, t)]
    /\ waitq' = Dequeue(m, t)

\* Mutant: release() unlocks only a held guard.
ReleaseUnlocksIfHeld(g) == guards[g].locked

\* Lock::release: "_mutex.unlock()", with no test of _locked.
ReleaseUnlocks(g) == TRUE

\* Mutant: release() unlocks the mutex and leaves _locked as it was.
ReleaseLockedKept(g) == guards[g].locked

\* Lock::release: "_locked = false".
ReleaseLocked(g) == FALSE

\* Lock::release
release(t, g) ==
    LET m == guards[g].mutex IN
    /\ ThreadOf(g) = t
    /\ guards[g].alive
    /\ inCall[t] = NoCall
    /\ IF ReleaseUnlocks(g) THEN MutexUnlock(m, t)
                            ELSE UNCHANGED <<mutex, holder>>
    /\ guards' = [guards EXCEPT ![g].locked = ReleaseLocked(g)]
    /\ lastOp' = [NoOp EXCEPT !.op = "release", !.g = g, !.m = m,
                     !.held = guards[g].locked,
                     !.calls = IF ReleaseUnlocks(g) THEN <<"unlock">> ELSE <<>>]
    /\ UNCHANGED <<inCall, waitq>>

\* A call of Lock::locked.
lockedCall(t, g) ==
    /\ ThreadOf(g) = t
    /\ guards[g].alive
    /\ inCall[t] = NoCall
    /\ lastOp' = [NoOp EXCEPT !.op = "locked", !.g = g,
                     !.m = guards[g].mutex,
                     !.held = guards[g].locked, !.result = locked(g)]
    /\ UNCHANGED <<mutex, holder, guards, inCall, waitq>>

\* ---------------------------------------------------------- caller contract

\* lock() by the thread that has the mutex locked is undefined (the mutex is
\* not reentrant); release() requires a held guard, acquire() an unheld one.
MayLock(t, m) == mutex[m] # t

LockAllowed(t, m, autoLock) == autoLock => MayLock(t, m)

AcquireAllowed(t, g) == ~guards[g].locked /\ MayLock(t, guards[g].mutex)

ReleaseAllowed(g) == guards[g].locked

\* ------------------------------------------------- any contract-respecting use

\* The Lock objects that exist.
Alive == {g \in GuardIds : guards[g].alive}

Construct ==
    \E t \in Threads, m \in Mutexes, autoLock \in BOOLEAN :
        /\ Cardinality(Alive) < MaxGuards
        /\ LockAllowed(t, m, autoLock)
        /\ Lock(t, m, autoLock)
        /\ UNCHANGED cvars

ConstructDone == \E t \in Threads : CtorReturns(t) /\ UNCHANGED cvars

ScopeExit ==
    \E t \in Threads, how \in ExitPaths : DtorLock(t, how) /\ UNCHANGED cvars

Acquire ==
    \E g \in GuardIds :
        /\ guards[g].alive
        /\ AcquireAllowed(ThreadOf(g), g)
        /\ acquire(ThreadOf(g), g)
        /\ UNCHANGED cvars

AcquireDone == \E t \in Threads : AcquireReturns(t) /\ UNCHANGED cvars

Release ==
    \E g \in GuardIds :
        /\ guards[g].alive
        /\ ReleaseAllowed(g)
        /\ release(ThreadOf(g), g)
        /\ UNCHANGED cvars

Query == \E g \in GuardIds : lockedCall(ThreadOf(g), g) /\ UNCHANGED cvars

Next ==
    \/ Construct
    \/ ConstructDone
    \/ ScopeExit
    \/ Acquire
    \/ AcquireDone
    \/ Release
    \/ Query

Spec == Init /\ [][Next]_vars

\* A thread blocked in lock() on a mutex that stays free is scheduled and
\* its call returns (preemptive threads); nothing else is assumed.
LockReturns(t) == (CtorReturns(t) \/ AcquireReturns(t)) /\ UNCHANGED cvars

SpecFair == Spec /\ \A t \in Threads : WF_vars(LockReturns(t))

\* ------------------------------------------- use that breaks the caller contract

MisuseConstruct ==
    \E t \in Threads, m \in Mutexes :
        /\ Cardinality(Alive) < MaxGuards
        /\ ~LockAllowed(t, m, TRUE)
        /\ Lock(t, m, TRUE)
        /\ UNCHANGED cvars

MisuseAcquire ==
    \E g \in GuardIds :
        /\ guards[g].alive
        /\ ~AcquireAllowed(ThreadOf(g), g)
        /\ acquire(ThreadOf(g), g)
        /\ UNCHANGED cvars

MisuseRelease ==
    \E g \in GuardIds :
        /\ guards[g].alive
        /\ ~ReleaseAllowed(g)
        /\ release(ThreadOf(g), g)
        /\ UNCHANGED cvars

MisuseLockFails == \E t \in Threads : LockThrows(t) /\ UNCHANGED cvars

NextMisuse ==
    \/ Next
    \/ MisuseConstruct
    \/ MisuseAcquire
    \/ MisuseLockFails
    \/ MisuseRelease

SpecMisuse == Init /\ [][NextMisuse]_vars

\* Contract-respecting use in which lock() may fail (std::mutex::lock may
\* throw std::system_error).
LockFails == \E t \in Threads : LockError(t) /\ UNCHANGED cvars

NextFail ==
    \/ Next
    \/ LockFails

SpecFail == Init /\ [][NextFail]_vars

\* Use whose only breach of the contract is locking a Mutex again from the
\* thread that has it locked: acquire() on a held guard, acquire() or an
\* auto-lock constructor on a Mutex held through another guard of the thread.
NextRelock ==
    \/ Next
    \/ MisuseConstruct
    \/ MisuseAcquire
    \/ MisuseLockFails

SpecRelock == Init /\ [][NextRelock]_vars

\* ----------------------------------------------------- the increment scenario
\* Each thread runs Iterations times the block
\*     { Lock lock (mtx);  counter += 1;  }
\* on one Mutex; counter += 1 is a read of counter followed by a write.

SharedMutex == CHOOSE m \in Mutexes : \A m2 \in Mutexes : m <= m2

Enter(t) ==
    /\ cpc[t] = "top"
    /\ iter[t] < Iterations
    /\ Lock(t, SharedMutex, TRUE)
    /\ cpc' = [cpc EXCEPT ![t] = "read"]
    /\ UNCHANGED <<counter, tmp, iter>>

Entered(t) == CtorReturns(t) /\ UNCHANGED cvars

Read(t) ==
    /\ cpc[t] = "read"
    /\ inCall[t] = NoCall
    /\ tmp' = [tmp EXCEPT ![t] = counter]
    /\ cpc' = [cpc EXCEPT ![t] = "write"]
    /\ lastOp' = NoOp
    /\ UNCHANGED <<mutex, holder, guards, inCall, waitq, counter, iter>>

Write(t) ==
    /\ cpc[t] = "write"
    /\ counter' = tmp[t] + 1
    /\ cpc' = [cpc EXCEPT ![t] = "exit"]
    /\ lastOp' = NoOp
    /\ UNCHANGED <<mutex, holder, guards, inCall, waitq, tmp, iter>>

Leave(t) ==
    /\ cpc[t] = "exit"
    /\ DtorLock(t, "fallthrough")
    /\ iter' = [iter EXCEPT ![t] = iter[t] + 1]
    /\ cpc' = [cpc EXCEPT ![t] = "top"]
    /\ UNCHANGED <<counter, tmp>>

NextCounter ==
    \E t \in Threads :
        \/ Enter(t)
        \/ Entered(t)
        \/ Read(t)
        \/ Write(t)
        \/ Leave(t)

SpecCounter == Init /\ [][NextCounter]_vars

Finished == \A t \in Threads : cpc[t] = "top" /\ iter[t] = Iterations

\* Preemptive threads: a thread that can take a step of its block, or whose
\* lock() can return, while this stays so, takes it.  Starting a block is
\* left to the thread.
Proceed(t) == Entered(t) \/ Read(t) \/ Write(t) \/ Leave(t)

SpecCounterFair == SpecCounter /\ \A t \in Threads : WF_vars(Proceed(t))


\* ------------------------------------------------------------- vocabulary

\* Thread t is blocked in _mutex.lock() on Mutex m (constructor or acquire).
Waiting(t, m) ==
    /\ inCall[t] # NoCall
    /\ guards[inCall[t].g].mutex = m

\* The threads between a completed lock of m and the matching unlock: a
\* guard of theirs on m has returned from lock() and not yet unlocked.
InCriticalSection(m) ==
    {t \in Threads : \E g \in Alive :
        ThreadOf(g) = t /\ guards[g].mutex = m /\ guards[g].locked}

\* Guard g owns the exclusive access of its Mutex: the mutex is locked by
\* g's thread, through g's own call of lock().
Owns(g) ==
    /\ guards[g].alive
    /\ mutex[guards[g].mutex] = ThreadOf(g)
    /\ holder[guards[g].mutex] = g

\* ------------------------------------------------------------------ claims

\* C1: under contract-respecting use, at most one thread is between a
\* completed lock of a Mutex and the matching unlock, and that thread is the
\* one the Mutex is locked by.
C1_MutualExclusion ==
    \A m \in Mutexes :
        /\ Cardinality(InCriticalSection(m)) <= 1
        /\ \A t \in InCriticalSection(m) : mutex[m] = t

C1_Witness ==
    \E m \in Mutexes, t1, t2 \in Threads :
        t1 # t2 /\ t1 \in InCriticalSection(m) /\ Waiting(t2, m)

\* C2: when every thread has run its Iterations blocks
\* { Lock lock (mtx); counter += 1; }, counter = NumThreads * Iterations.
C2_NoLostUpdates == Finished => counter = NumThreads * Iterations

C2_Witness == Finished /\ counter = NumThreads * Iterations

\* C3: a constructor called with autoLock = true has returned only if the
\* Mutex is locked through this guard and locked() is true; while a guard is
\* held, no lock() of another thread on its Mutex can return.
C3_AutoLockHolds ==
    /\ (lastOp.op = "ctor" /\ lastOp.auto) =>
          IF lastOp.ret
          THEN locked(lastOp.g) /\ Owns(lastOp.g)
          ELSE inCall[ThreadOf(lastOp.g)] = [op |-> "ctor", g |-> lastOp.g]
    /\ \A g \in Alive : locked(g) =>
          \A t \in Threads \ {ThreadOf(g)} :
              Waiting(t, guards[g].mutex) => ~ENABLED LockReturns(t)

C3_Witness ==
    /\ lastOp.op = "ctor" /\ lastOp.auto /\ lastOp.ret
    /\ \E t \in Threads \ {ThreadOf(lastOp.g)} : Waiting(t, lastOp.m)

\* C4: a constructor called with autoLock = false calls no mutex operation,
\* leaves locked() false and every Mutex as it was; an unheld guard that
\* is not inside acquire() does not own its Mutex, and while that Mutex is
\* free every lock() of another thread on it can return.
C4_State ==
    /\ (lastOp.op = "ctor" /\ ~lastOp.auto) =>
          lastOp.ret /\ lastOp.calls = <<>> /\ ~locked(lastOp.g)
    /\ \A g \in Alive :
          (~locked(g) /\ inCall[ThreadOf(g)].g # g) =>
              /\ ~Owns(g)
              /\ MutexCanLock(guards[g].mutex) =>
                    \A t \in Threads \ {ThreadOf(g)} :
                        Waiting(t, guards[g].mutex) => ENABLED LockReturns(t)

C4_Step ==
    (lastOp'.op = "ctor" /\ ~lastOp'.auto) =>
        mutex' = mutex /\ holder' = holder

\* C4: the state part in every state, the step part in every step.
C4_NoAutoLock == []C4_State /\ [][C4_Step]_vars

C4_Witness ==
    /\ lastOp.op = "ctor" /\ ~lastOp.auto
    /\ MutexCanLock(lastOp.m)
    /\ \E t \in Threads \ {ThreadOf(lastOp.g)} : Waiting(t, lastOp.m)

\* C5: after the destructor of a held guard, on every exit path, the Mutex
\* is not held on behalf of that guard and is free; a locked Mutex is locked
\* through a guard that exists, so with no guard alive every Mutex is free.
C5_NoLeak ==
    /\ (lastOp.op = "dtor" /\ lastOp.held) =>
          /\ lastOp.how \in ExitPaths
          /\ holder[lastOp.m] # lastOp.g
          /\ mutex[lastOp.m] = NoOwner
    /\ \A m \in Mutexes : mutex[m] # NoOwner => holder[m] \in Alive
    /\ Alive = {} => \A m \in Mutexes : mutex[m] = NoOwner

C5_Witness ==
    /\ lastOp.op = "dtor" /\ lastOp.held /\ lastOp.how = "throw"
    /\ Alive = {}

\* C6: the destructor calls unlock exactly once if _locked is true and calls
\* nothing and leaves every Mutex as it was if _locked is false, also after
\* acquire()/release() sequences that break the caller contract.
C6_State ==
    lastOp.op = "dtor" =>
        lastOp.calls = IF lastOp.held THEN <<"unlock">> ELSE <<>>

C6_Step ==
    (lastOp'.op = "dtor" /\ ~lastOp'.held) =>
        mutex' = mutex /\ holder' = holder

\* C6: the state part in every state, the step part in every step.
C6_DtorUnlocksIffHeld == []C6_State /\ [][C6_Step]_vars

C6_Witness ==
    /\ lastOp.op = "dtor" /\ ~lastOp.held /\ lastOp.calls = <<>>
    /\ mutex[lastOp.m] # NoOwner

\* C7: after the destructor of a held guard the Mutex is free and the lock()
\* of every thread blocked on it can return; if a thread is blocked on it,
\* a lock() on that Mutex eventually returns.
C7_Available ==
    (lastOp.op = "dtor" /\ lastOp.held) =>
        /\ MutexCanLock(lastOp.m)
        /\ \A t \in Threads : Waiting(t, lastOp.m) => ENABLED LockReturns(t)

\* C7: the Mutex is available after the scope exit of a held guard, and a
\* waiting lock() then eventually returns (weak fairness of lock() returns).
C7_ScopeExitFrees ==
    /\ []C7_Available
    /\ \A m \in Mutexes :
          (/\ lastOp.op = "dtor" /\ lastOp.held /\ lastOp.m = m
           /\ \E t \in Threads : Waiting(t, m))
          ~> (/\ lastOp.op \in {"ctor", "acquire"}
              /\ lastOp.calls = <<"lock">> /\ lastOp.ret /\ lastOp.m = m)

C7_Witness ==
    /\ lastOp.op = "dtor" /\ lastOp.held
    /\ \E t \in Threads : Waiting(t, lastOp.m)

\* C8: after release() locked() is false and acquire() may be called on the
\* guard; a thread inside acquire() returns once the Mutex is free; after
\* acquire() has returned locked() is true and release() may be called.
C8_ReleaseThenAcquire ==
    /\ lastOp.op = "release" =>
          /\ ~locked(lastOp.g)
          /\ AcquireAllowed(ThreadOf(lastOp.g), lastOp.g)
          /\ ENABLED acquire(ThreadOf(lastOp.g), lastOp.g)
    /\ \A t \in Threads :
          (inCall[t].op = "acquire" /\ mutex[guards[inCall[t].g].mutex] = NoOwner)
              => ENABLED AcquireReturns(t)
    /\ (lastOp.op = "acquire" /\ lastOp.ret) =>
          /\ locked(lastOp.g)
          /\ ReleaseAllowed(lastOp.g)
          /\ ENABLED release(ThreadOf(lastOp.g), lastOp.g)

C8_Witness ==
    /\ lastOp.op = "release" /\ ~locked(lastOp.g)
    /\ \E t \in Threads \ {ThreadOf(lastOp.g)} : Waiting(t, lastOp.m)

\* C9: under contract-respecting use, _locked is true if and only if the
\* guard owns the exclusive access of its Mutex.
C9_FlagIffOwns == \A g \in GuardIds : guards[g].locked <=> Owns(g)

C9_Witness ==
    \E g1, g2 \in Alive :
        /\ g1 # g2 /\ guards[g1].mutex = guards[g2].mutex
        /\ guards[g1].locked /\ ~guards[g2].locked

\* C10: release() calls unlock exactly once and leaves _locked false,
\* whatever _locked was before the call.
C10_ReleaseUnconditional ==
    lastOp.op = "release" =>
        lastOp.calls = <<"unlock">> /\ ~guards[lastOp.g].locked

C10_Witness == lastOp.op = "release" /\ ~lastOp.held

\* C11: locked() returns the value of _locked; the call leaves _locked, every
\* Mutex, every other guard and every blocked call as they were, in any
\* state, also one reached by breaking the caller contract.
C11_State ==
    lastOp.op = "locked" =>
        /\ lastOp.result = guards[lastOp.g].locked
        /\ lastOp.result = lastOp.held
        /\ lastOp.calls = <<>>

C11_Step ==
    lastOp'.op = "locked" =>
        /\ guards' = guards
        /\ mutex' = mutex /\ holder' = holder
        /\ inCall' = inCall

\* C11: the state part in every state, the step part in every step.
C11_LockedIsPure == []C11_State /\ [][C11_Step]_vars

C11_Witness ==
    /\ lastOp.op = "locked" /\ lastOp.result
    /\ \E t \in Threads \ {ThreadOf(lastOp.g)} : Waiting(t, lastOp.m)

\* C12: a constructed guard starts Held if autoLock was given and Unheld
\* otherwise; acquire() takes Unheld to Held, release() and scope exit take
\* Held to Unheld, scope exit from Unheld calls nothing; under
\* contract-respecting use _locked changes in no other step.
C12_State ==
    /\ (lastOp.op = "ctor" /\ lastOp.ret) =>
          guards[lastOp.g].locked = lastOp.auto
    /\ (lastOp.op = "acquire" /\ lastOp.ret) =>
          ~lastOp.held /\ guards[lastOp.g].locked
    /\ lastOp.op = "release" =>
          lastOp.held /\ ~guards[lastOp.g].locked
    /\ lastOp.op = "dtor" =>
          /\ ~guards[lastOp.g].alive /\ ~guards[lastOp.g].locked
          /\ ~lastOp.held => lastOp.calls = <<>>

C12_Step ==
    \A g \in GuardIds :
        /\ (~guards[g].locked /\ guards'[g].locked) =>
              /\ lastOp'.g = g /\ lastOp'.ret
              /\ \/ lastOp'.op = "acquire"
                 \/ lastOp'.op = "ctor" /\ lastOp'.auto
        /\ (guards[g].locked /\ ~guards'[g].locked) =>
              /\ lastOp'.g = g
              /\ lastOp'.op \in {"release", "dtor"}

\* C12: the state part in every state, the step part in every step.
C12_TwoStateMachine == []C12_State /\ [][C12_Step]_vars

C12_Witness ==
    /\ lastOp.op = "acquire" /\ lastOp.ret /\ ~lastOp.held
    /\ guards[lastOp.g].locked

\* Thread t is inside lock() on a Mutex that t itself has locked.
Relocking(t) ==
    /\ inCall[t] # NoCall
    /\ mutex[guards[inCall[t].g].mutex] = t

C13_State ==
    /\ lastOp.op = "acquire" => lastOp.calls = <<"lock">>
    /\ \A t \in Threads : Relocking(t) =>
          /\ ~ENABLED LockReturns(t)
          /\ \A g \in Alive : ThreadOf(g) = t => ~ENABLED release(t, g)
          /\ \A how \in ExitPaths : ~ENABLED DtorLock(t, how)
    /\ lastOp.threw =>
          /\ mutex[lastOp.m] = ThreadOf(lastOp.g)
          /\ lastOp.op = "acquire" => guards[lastOp.g].locked = lastOp.held

C13_Step ==
    \A t \in Threads :
        (Relocking(t) /\ ~Relocking(t)') =>
            /\ lastOp'.threw /\ lastOp'.g = inCall[t].g
            /\ mutex' = mutex /\ holder' = holder

C15_CanProceed ==
    (\E t \in Threads : Waiting(t, SharedMutex)) =>
        \E t2 \in Threads : ENABLED Proceed(t2)

C15_NoDeadlock ==
    /\ []C15_CanProceed
    /\ (\E t \in Threads : Waiting(t, SharedMutex))
          ~> (/\ lastOp.op = "ctor" /\ lastOp.ret /\ lastOp.calls = <<"lock">>
              /\ cpc[ThreadOf(lastOp.g)] = "read")

C15_Witness ==
    \E t1, t2 \in Threads :
        /\ t1 # t2
        /\ Waiting(t1, SharedMutex)
        /\ cpc[t2] = "write" /\ mutex[SharedMutex] = t2

\* C16: _locked is false while the guard's thread is inside lock() and is
\* true only when the guard owns its Mutex; after a lock() that failed, in
\* the constructor or in acquire() on an unheld guard, _locked is false and
\* the guard does not hold the Mutex; the destructor unlocks only a Mutex
\* its guard owns.
C16_State ==
    /\ \A t \in Threads : inCall[t] # NoCall => ~guards[inCall[t].g].locked
    /\ \A g \in GuardIds : guards[g].locked => Owns(g)
    /\ lastOp.threw =>
          /\ ~guards[lastOp.g].locked
          /\ holder[lastOp.m] # lastOp.g
          /\ lastOp.op = "ctor" => ~guards[lastOp.g].alive
    /\ (lastOp.op = "dtor" /\ ~lastOp.held) => lastOp.calls = <<>>

C16_Step ==
    (lastOp'.op = "dtor" /\ lastOp'.calls # <<>>) => Owns(lastOp'.g)

\* C16: the state part in every state, the step part in every step.
C16_FailedLockUnheld == []C16_State /\ [][C16_Step]_vars

C16_Witness ==
    /\ lastOp.threw /\ lastOp.op = "acquire"
    /\ guards[lastOp.g].alive /\ ~guards[lastOp.g].locked
    /\ mutex[lastOp.m] # NoOwner

\* C17: a guard is bound to the one Mutex given to its constructor and the
\* binding never changes; the constructor, acquire(), release() and the
\* destructor of a guard leave every Mutex other than the guard's own, and
\* every other guard, as they were.
C17_State ==
    /\ \A g \in Alive : guards[g].mutex \in Mutexes
    /\ (lastOp.op = "ctor" /\ guards[lastOp.g].alive) =>
          guards[lastOp.g].mutex = lastOp.m

C17_Step ==
    /\ \A g \in GuardIds :
          (guards[g].alive /\ guards'[g].alive) =>
              guards'[g].mutex = guards[g].mutex
    /\ lastOp'.op \in {"ctor", "acquire", "release", "dtor"} =>
          /\ \A m2 \in Mutexes \ {lastOp'.m} :
                /\ mutex'[m2] = mutex[m2]
                /\ holder'[m2] = holder[m2]
                /\ waitq'[m2] = waitq[m2]
          /\ \A g2 \in GuardIds \ {lastOp'.g} : guards'[g2] = guards[g2]

\* C17: the state part in every state, the step part in every step.
C17_BindingAndIsolation == []C17_State /\ [][C17_Step]_vars

C17_Witness ==
    /\ lastOp.op = "release"
    /\ \E g2 \in Alive :
          /\ g2 # lastOp.g
          /\ guards[g2].mutex # lastOp.m
          /\ guards[g2].locked /\ Owns(g2)

====
